---- MODULE Spec2Model ----
(***************************************************************************)
(* Model of src/dataset/mod.rs: the NeRF dataset loader                    *)
(* (SimpleNerfDatasetConfig::init_from_reader), the train/test split       *)
(* (SimpleNerfDataset::split_for_training) and the per-access item         *)
(* assembly (Dataset::get).                                               *)
(*                                                                         *)
(* Numbers.  The code computes in f32.  The model keeps the shape of that  *)
(* arithmetic (every operation rounds its exact result to the nearest      *)
(* representable value, ties to even) in a binary floating-point format    *)
(* scaled down to Precision significant bits whose finest spacing is       *)
(* 1/Unit.  A number is held as an integer count of 1/Unit.  The exponent  *)
(* range is unbounded above: infinities and NaN are not modelled.          *)
(*                                                                         *)
(* Tensors.  A tensor is held as burn's Data: a shape and the row-major    *)
(* flat vector of its values.  Multi-indices are 0-based, flat positions   *)
(* are 1-based.                                                            *)
(***************************************************************************)
EXTENDS Integers, Sequences, FiniteSets, TLC

VARIABLES config, reader, loaded, pool, role, alive, lastSplit, lastGet, pinned

vars == <<config, reader, loaded, pool, role, alive, lastSplit, lastGet, pinned>>

-----------------------------------------------------------------------------
(* Bounds of the model *)

\* significant bits of the scaled-down float format (f32 has 24)
Precision == 4
\* fractional bits of the finest spacing: Unit = 2^FracBits counts make 1.0
FracBits == 3
\* largest image count / pose count of an archive
MaxImages == 3
\* largest points_per_ray
MaxPoints == 3
\* how many times split_for_training is called in one run
MaxSplits == 2
\* how many times get is called in one run that compares reads
MaxGets == 3

\* channel count the loader requires (mod.rs line 88)
Channels == 3

Unit == 2 ^ FracBits

-----------------------------------------------------------------------------
(* f32 arithmetic, scaled down *)

Abs(x) == IF x < 0 THEN -x ELSE x

Sign(x) == IF x < 0 THEN -1 ELSE 1

\* smallest e >= 0 with num/den < 2^(Precision+e): the exponent of the spacing
RECURSIVE Expo(_, _, _)
Expo(num, den, e) ==
    IF num < (2 ^ (Precision + e)) * den THEN e ELSE Expo(num, den, e + 1)

\* num/den (num >= 0, den > 0) to the nearest integer, ties to even
NearestEven(num, den) ==
    LET q == num \div den
        r == num % den
    IN  IF 2 * r < den THEN q
        ELSE IF 2 * r > den THEN q + 1
        ELSE IF q % 2 = 0 THEN q ELSE q + 1

\* the representable value nearest to num/den (den > 0), ties to even
Round(num, den) ==
    LET a == Abs(num)
        e == Expo(a, den, 0)
    IN  Sign(num) * NearestEven(a, den * (2 ^ e)) * (2 ^ e)

IsRepresentable(x) == Round(x, 1) = x

fadd(a, b) == Round(a + b, 1)

fsub(a, b) == Round(a - b, 1)

fmul(a, b) == Round(a * b, Unit)

\* b # 0
fdiv(a, b) == Round(Sign(b) * a * Unit, Abs(b))

\* `n as f32` of an integer n
FromInt(n) == Round(n * Unit, 1)

\* f32::clamp(0.0, 1.0)
Clamp01(x) == IF x < 0 THEN 0 ELSE IF x > Unit THEN Unit ELSE x

\* seeded fault: this variant rounds halves to even
RoundHalfEven(x) ==
    Sign(x) * NearestEven(Abs(x), Unit)

\* f32::round: to the nearest integer, halves away from zero
RoundHalfAway(x) ==
    Sign(x) * ((2 * Abs(x) + Unit) \div (2 * Unit))

\* `as usize` of an integral float: negative values saturate to 0
AsUsize(n) == IF n < 0 THEN 0 ELSE n

-----------------------------------------------------------------------------
(* Tensors: burn's Data { value, shape } and the tensor operations used *)

RECURSIVE Prod(_)
Prod(shape) ==
    IF shape = << >> THEN 1 ELSE Head(shape) * Prod(Tail(shape))

\* row-major stride of dimension d (1-based)
Stride(shape, d) == Prod(SubSeq(shape, d + 1, Len(shape)))

\* multi-index of the 0-based flat position k0
Idx(shape, k0) ==
    [d \in 1..Len(shape) |-> (k0 \div Stride(shape, d)) % shape[d]]

RECURSIVE OffFrom(_, _, _)
OffFrom(shape, idx, d) ==
    IF d > Len(shape) THEN 0
    ELSE idx[d] * Stride(shape, d) + OffFrom(shape, idx, d + 1)

\* 0-based flat position of a multi-index
Off(shape, idx) == OffFrom(shape, idx, 1)

\* the multi-indices of a shape
Indices(shape) == { Idx(shape, k - 1) : k \in 1..Prod(shape) }

\* the tensor of the given shape whose element at idx is f[idx]
Build(shape, f) ==
    [shape |-> shape,
     value |-> [k \in 1..Prod(shape) |-> f[Idx(shape, k - 1)]]]

\* element read with broadcasting: a dimension of size 1 serves every index
At(t, idx) ==
    t.value[1 + Off(t.shape,
                    [d \in 1..Len(t.shape) |->
                        IF t.shape[d] = 1 THEN 0 ELSE idx[d]])]

BroadcastShape(s1, s2) ==
    [d \in 1..Len(s1) |-> IF s1[d] = 1 THEN s2[d] ELSE s1[d]]

Mul(a, b) ==
    LET shape == BroadcastShape(a.shape, b.shape)
    IN  Build(shape, [idx \in Indices(shape) |-> fmul(At(a, idx), At(b, idx))])

Add(a, b) ==
    LET shape == BroadcastShape(a.shape, b.shape)
    IN  Build(shape, [idx \in Indices(shape) |-> fadd(At(a, idx), At(b, idx))])

RECURSIVE SumFrom(_, _, _, _)
SumFrom(t, idx, d, j) ==
    IF j = 0 THEN At(t, [idx EXCEPT ![d] = 0])
    ELSE fadd(SumFrom(t, idx, d, j - 1), At(t, [idx EXCEPT ![d] = j]))

\* Tensor::sum_dim(d): the dimension is kept with size 1
SumDim(t, d) ==
    LET shape == [t.shape EXCEPT ![d] = 1]
    IN  Build(shape,
              [idx \in Indices(shape) |-> SumFrom(t, idx, d, t.shape[d] - 1)])

Swap(s, d1, d2) == [s EXCEPT ![d1] = s[d2], ![d2] = s[d1]]

\* Tensor::swap_dims
SwapDims(t, d1, d2) ==
    LET shape == Swap(t.shape, d1, d2)
    IN  Build(shape, [idx \in Indices(shape) |-> At(t, Swap(idx, d1, d2))])

\* Tensor::expand: dimensions of size 1 are broadcast to the target shape
Expand(t, shape) ==
    Build(shape, [idx \in Indices(shape) |-> At(t, idx)])

\* Tensor::repeat(d, times) of a dimension of size 1
Repeat(t, d, times) ==
    LET shape == [t.shape EXCEPT ![d] = times]
    IN  Build(shape, [idx \in Indices(shape) |-> At(t, idx)])

\* Tensor::reshape, unsqueeze_dims, squeeze: same values, new shape
Reshape(t, shape) == [shape |-> shape, value |-> t.value]

\* Tensor::slice: lo[d] is the 0-based start, n[d] the length, per dimension
Slice(t, lo, n) ==
    Build(n, [idx \in Indices(n) |->
                At(t, [d \in 1..Len(n) |-> lo[d] + idx[d]])])

\* iter_dim(0) then squeeze(0): the i-th (0-based) slice along dimension 0
Select0(t, i) ==
    LET shape == Tail(t.shape)
    IN  Build(shape, [idx \in Indices(shape) |-> At(t, <<i>> \o idx)])

-----------------------------------------------------------------------------
(* Inputs: the configuration and the decoded archive *)

\* SimpleNerfDatasetConfig { points_per_ray, distance_range }
DistanceRanges ==
    { [start |-> 2 * Unit, end |-> 6 * Unit],
      [start |-> 32 * Unit, end |-> 36 * Unit],
      [start |-> 3 * Unit, end |-> 3 * Unit] }

Configs ==
    [points_per_ray : 0..MaxPoints, distance_range : DistanceRanges]

\* the rotation block of the pose of variant v, by rows, in eighths
RotationEighths(v) ==
    IF v = 0 THEN << <<8, 0, 0>>, <<0, 8, 0>>, <<0, 0, 8>> >>
    ELSE IF v = 1 THEN << <<0, 0, 8>>, <<0, 8, 0>>, <<-8, 0, 0>> >>
    ELSE << <<5, -6, 0>>, <<6, 5, 0>>, <<0, 0, 8>> >>

\* the camera position of the pose of image i, in eighths
TranslationEighths(i) == <<8 * i, 4, 16>>

\* poses[i, r, c]: the 3x4 camera-to-world matrix of image i
PoseValue(idx) ==
    (Unit \div 8) *
        (IF idx[3] < 3 THEN RotationEighths(idx[1] % 3)[idx[2] + 1][idx[3] + 1]
         ELSE TranslationEighths(idx[1])[idx[2] + 1])

\* images[i, h, w, c]: a colour in [0, 1) that differs from image to image
PixelValue(idx) ==
    (Unit \div 8) * ((3 * idx[1] + idx[2] + 2 * idx[3] + idx[4]) % 8)

\* what the archive reader decodes: which named arrays exist, the focal
\* vector, and the images and poses arrays with their shapes
Archive(names, focal, n, h, w, c, np) ==
    [names  |-> names,
     focal  |-> focal,
     images |-> Build(<<n, h, w, c>>,
                      [idx \in Indices(<<n, h, w, c>>) |-> PixelValue(idx)]),
     poses  |-> Build(<<np, 3, 4>>,
                      [idx \in Indices(<<np, 3, 4>>) |-> PoseValue(idx)])]

AllNames == {"focal", "images", "poses"}

Focals == {Unit, 3 * (Unit \div 2)}

\* image heights and widths: one pixel, one row, one column, a square
ImageSizes == {<<1, 1>>, <<1, 2>>, <<2, 1>>, <<2, 2>>}

\* archives that satisfy the loader's preconditions
GoodArchives ==
    { Archive(AllNames, <<f>>, n, hw[1], hw[2], Channels, n) :
        f \in Focals, n \in 0..MaxImages, hw \in ImageSizes }

\* archives with a missing array, an empty focal vector, an image count that
\* differs from the pose count, or a channel count other than 3
BadArchives ==
    { Archive(AllNames \ {m}, <<Unit>>, 2, 1, 1, Channels, 2) : m \in AllNames }
    \cup { Archive(AllNames, << >>, 2, 1, 1, Channels, 2),
           Archive({"focal", "poses"}, << >>, 2, 1, 1, Channels, 2) }
    \cup { Archive(AllNames, <<Unit>>, n, 1, 1, Channels, np) :
             n \in 0..MaxImages, np \in 0..MaxImages }
    \cup { Archive(AllNames, <<Unit>>, n, 1, 1, c, np) :
             n \in 1..2, np \in 1..2, c \in {1, 4} }

Archives == GoodArchives \cup BadArchives

\* the io::ErrorKind a missing archive member surfaces as: `?` converts the
\* archive reader's FileNotFound error with the zip crate's From impl, which
\* gives Other or NotFound depending on the crate version
ZipNotFoundKinds == {"Other", "NotFound"}

-----------------------------------------------------------------------------
(* SimpleNerfDatasetConfig::init_from_reader *)

Err(kind) == [tag |-> "Err", kind |-> kind]

Ok(dataset) == [tag |-> "Ok", dataset |-> dataset]

\* plane_x, plane_y, plane_z stacked and reshaped to [1, H, W, 1, 3]
Planes(height, width, focal) ==
    LET plane_x(idx) ==
            fdiv(fsub(FromInt(idx[2]), fdiv(FromInt(width), 2 * Unit)), focal)
        plane_y(idx) ==
            fdiv(fadd(-FromInt(idx[1]), fdiv(FromInt(height), 2 * Unit)), focal)
        stacked ==
            Build(<<height, width, 3>>,
                  [idx \in Indices(<<height, width, 3>>) |->
                      IF idx[3] = 0 THEN plane_x(idx)
                      ELSE IF idx[3] = 1 THEN plane_y(idx)
                      ELSE -Unit])
    IN  Reshape(stacked, <<1, height, width, 1, 3>>)

\* world-space ray directions, [N, H, W, 1, 3]
Directions(planes, poses, image_count) ==
    LET rot == Reshape(Slice(poses, <<0, 0, 0>>, <<image_count, 3, 3>>),
                       <<image_count, 1, 1, 3, 3>>)
    IN  SwapDims(SumDim(Mul(planes, rot), 5), 5, 4)

\* camera positions expanded to the shape of directions, [N, H, W, 1, 3]
Origins(poses, image_count, shape) ==
    LET col == Reshape(Slice(poses, <<0, 0, 3>>, <<image_count, 3, 1>>),
                       <<image_count, 1, 1, 3, 1>>)
    IN  Expand(SwapDims(col, 5, 4), shape)

\* seeded fault: this variant spaces the samples over points_per_ray - 1 intervals, so that
\* the last sample is the end of the range
SampleDistancesInclusive(cfg) ==
    Build(<<cfg.points_per_ray>>,
          [idx \in Indices(<<cfg.points_per_ray>>) |->
            fadd(fmul(FromInt(idx[1]),
                      fdiv(fsub(cfg.distance_range.end, cfg.distance_range.start),
                           IF cfg.points_per_ray > 1
                           THEN FromInt(cfg.points_per_ray - 1) ELSE Unit)),
                 cfg.distance_range.start)])

\* arange(0..points_per_ray) * ((end - start) / points_per_ray) + start
SampleDistances(cfg) ==
    Build(<<cfg.points_per_ray>>,
          [idx \in Indices(<<cfg.points_per_ray>>) |->
            fadd(fmul(FromInt(idx[1]),
                      fdiv(fsub(cfg.distance_range.end, cfg.distance_range.start),
                           FromInt(cfg.points_per_ray))),
                 cfg.distance_range.start)])

\* the sample distances expanded to [N, H, W, S, 1]
Distances(cfg, image_count, height, width) ==
    Expand(Reshape(SampleDistances(cfg), <<1, 1, 1, cfg.points_per_ray, 1>>),
           <<image_count, height, width, cfg.points_per_ray, 1>>)

\* seeded fault: this variant keeps the origins repeated along the sample axis
InnerOfRepeated(directions, distances, images, origins, i) ==
    [directions |-> Select0(directions, i),
     distances  |-> Select0(distances, i),
     image      |-> Select0(images, i),
     origins    |-> Select0(Repeat(origins, 4, directions.shape[4]), i)]

\* SimpleNerfDatasetInner of image i
InnerOf(directions, distances, images, origins, i) ==
    [directions |-> Select0(directions, i),
     distances  |-> Select0(distances, i),
     image      |-> Select0(images, i),
     origins    |-> Select0(origins, i)]

\* the records built once the shape checks have passed
BuildInners(cfg, focal, images, poses) ==
    LET image_count == images.shape[1]
        height      == images.shape[2]
        width       == images.shape[3]
        planes      == Planes(height, width, focal)
        directions1 == Directions(planes, poses, image_count)
        origins     == Origins(poses, image_count, directions1.shape)
        directions  == Repeat(directions1, 4, cfg.points_per_ray)
        distances   == Distances(cfg, image_count, height, width)
    IN  [i \in 1..image_count |->
            InnerOf(directions, distances, images, origins, i - 1)]

\* seeded fault: this variant checks only the image count against the pose count
ShapeErrorNoChannel(images, poses) ==
    IF images.shape[1] # poses.shape[1] THEN {"InvalidData"} ELSE {}

\* the shape checks: the kinds of the error returned, none when they pass
ShapeError(images, poses) ==
    IF images.shape[1] # poses.shape[1] THEN {"InvalidData"}
    ELSE IF images.shape[4] # Channels THEN {"InvalidData"}
    ELSE {}

\* seeded fault: this variant reports a missing array as parse_err
MemberErrorAsParse(ar, zipKind) ==
    IF "focal" \notin ar.names THEN {"InvalidData"}
    ELSE IF ar.focal = << >> THEN {"InvalidData"}
    ELSE IF "images" \notin ar.names THEN {"InvalidData"}
    ELSE IF "poses" \notin ar.names THEN {"InvalidData"}
    ELSE {}

\* reading the three arrays: the kinds of the error returned, none when all
\* three are read
MemberError(ar, zipKind) ==
    IF "focal" \notin ar.names THEN {zipKind}
    ELSE IF ar.focal = << >> THEN {"InvalidData"}
    ELSE IF "images" \notin ar.names THEN {zipKind}
    ELSE IF "poses" \notin ar.names THEN {zipKind}
    ELSE {}

\* the io::Result of init_from_reader
InitFromReaderResult(cfg, ar, zipKind) ==
    LET e1 == MemberError(ar, zipKind)
        e2 == ShapeError(ar.images, ar.poses)
    IN  IF e1 # {} THEN Err(CHOOSE k \in e1 : TRUE)
        ELSE IF e2 # {} THEN Err(CHOOSE k \in e2 : TRUE)
        ELSE Ok([inners |-> BuildInners(cfg, ar.focal[1], ar.images, ar.poses),
                 has_noisy_distance |-> FALSE])

-----------------------------------------------------------------------------
(* SimpleNerfDataset::split_for_training *)

\* the ratios tried: below 0, 0, 1/4, 1/2, 5/8, 1, above 1
Ratios ==
    { -(Unit \div 2), 0, Unit \div 4, Unit \div 2, 5 * (Unit \div 8), Unit,
      Unit + Unit \div 2 }

\* (ratio.clamp(0.0, 1.0) * (len as f32)).round() as usize
SplitPoint(len, ratio) ==
    AsUsize(RoundHalfAway(fmul(Clamp01(ratio), FromInt(len))))

\* seeded fault: this variant gives the test part the parent's flag
SplitOfKeepFlag(ds, k) ==
    [train |-> [inners |-> SubSeq(ds.inners, 1, k),
                has_noisy_distance |-> TRUE],
     test  |-> [inners |-> SubSeq(ds.inners, k + 1, Len(ds.inners)),
                has_noisy_distance |-> ds.has_noisy_distance]]

\* SimpleNerfDatasetSplit built from inners.split_at(k)
SplitOf(ds, k) ==
    [train |-> [inners |-> SubSeq(ds.inners, 1, k),
                has_noisy_distance |-> TRUE],
     test  |-> [inners |-> SubSeq(ds.inners, k + 1, Len(ds.inners)),
                has_noisy_distance |-> FALSE]]

\* split_at panics when the split point is past the end
SplitForTraining(ds, ratio) ==
    LET k == SplitPoint(Len(ds.inners), ratio)
    IN  IF k > Len(ds.inners) THEN [tag |-> "Panic"]
        ELSE [tag |-> "Ok", split |-> SplitOf(ds, k)]

-----------------------------------------------------------------------------
(* Dataset::len and Dataset::get *)

DatasetLen(ds) == Len(ds.inners)

EmptyData == [shape |-> << >>, value |-> << >>]

NoItem ==
    [directions |-> EmptyData, distances |-> EmptyData,
     image |-> EmptyData, positions |-> EmptyData]

\* two shapes an elementwise operation accepts: equal, or 1, per dimension
Compatible(s1, s2) ==
    /\ Len(s1) = Len(s2)
    /\ \A d \in 1..Len(s1) : s1[d] = s2[d] \/ s1[d] = 1 \/ s2[d] = 1

\* seeded fault: this variant falls back to an empty slice
StepValuesUnchecked(value) ==
    IF Len(value) >= 2 THEN SubSeq(value, 1, 2) ELSE << >>

\* inner.distances.value.get(0..2).unwrap_or(&[0.0, 0.0])
StepValues(value) ==
    IF Len(value) >= 2 THEN SubSeq(value, 1, 2) ELSE <<0, 0>>

\* seeded fault: this variant draws the noise from twice the step
NoiseBoundDouble(distance_value) == 2 * distance_value

\* the upper bound handed to Distribution::Uniform
NoiseBound(distance_value) == distance_value

\* the values Uniform(low, high) can draw: low <= x < high.  low >= high
\* arises here only as low = high = 0, where the draw low + (high - low) * u
\* is 0.
UniformValues(low, high) ==
    IF low < high THEN {x \in low..(high - 1) : IsRepresentable(x)} ELSE {low}

SetMax(S) == CHOOSE x \in S : \A y \in S : y <= x

\* the ways one random_like draw is tried: every element the smallest
\* value, every element the largest, or elements that differ from one another
NoisePatterns == {"low", "high", "mixed"}

\* distances.random_like(Distribution::Uniform(low, high)), drawn as pattern p
NoiseDraw(shape, low, high, p) ==
    LET vals == UniformValues(low, high)
        hi   == SetMax(vals)
        mid  == SetMax({x \in vals : 2 * x <= low + hi})
    IN  [shape |-> shape,
         value |-> [k \in 1..Prod(shape) |->
                      IF p = "low" THEN low
                      ELSE IF p = "high" THEN hi
                      ELSE IF k % 2 = 1 THEN hi ELSE mid]]

\* seeded fault: this variant computes the positions from the stored distances
PositionsOfStored(inner, distances) ==
    Add(inner.origins, Mul(inner.directions, inner.distances))

\* origins + directions * distances
PositionsOf(inner, distances) ==
    Add(inner.origins, Mul(inner.directions, distances))

\* seeded fault: this variant adds the noise whatever the flag
JitteredAlways(ds, distances, noises) == Add(distances, noises)

\* the distances of the item: with the noise added when the flag is set
Jittered(ds, distances, noises) ==
    IF ds.has_noisy_distance THEN Add(distances, noises) ELSE distances

\* self.inners.get(index): the record, or nothing
InnerAt(ds, index) ==
    IF index < Len(ds.inners) THEN <<ds.inners[index + 1]>> ELSE << >>

\* the body of get for a record in range; p is the noise drawn
GetOf(ds, inner, p) ==
    LET values == StepValues(inner.distances.value)
    IN  IF Len(values) < 2 THEN [tag |-> "Panic", item |-> NoItem]
        ELSE
        LET distance_value == fsub(values[2], values[1])
            noises    == NoiseDraw(inner.distances.shape, 0,
                                   NoiseBound(distance_value), p)
            distances == Jittered(ds, inner.distances, noises)
        IN  IF \/ ~Compatible(inner.directions.shape, distances.shape)
               \/ ~Compatible(inner.origins.shape,
                              BroadcastShape(inner.directions.shape,
                                             distances.shape))
            THEN [tag |-> "Panic", item |-> NoItem]
            ELSE [tag |-> "Some",
                  item |-> [directions |-> inner.directions,
                            distances  |-> distances,
                            image      |-> inner.image,
                            positions  |-> PositionsOf(inner, distances)]]

\* Dataset::get: None past the end, else the item
GetResult(ds, index, p) ==
    LET found == InnerAt(ds, index)
    IN  IF found = << >> THEN [tag |-> "None", item |-> NoItem]
        ELSE GetOf(ds, found[1], p)

-----------------------------------------------------------------------------
(* The state machine *)

NoSplit == [tag |-> "none", parent |-> 0, ratio |-> 0, train |-> 0, test |-> 0]

NoGet == [tag |-> "none", seq |-> 0, ds |-> 0, index |-> 0, item |-> NoItem]

\* the state once the configuration and the byte stream exist
InitWith(cfgs, archives) ==
    /\ config \in cfgs
    /\ reader \in archives
    /\ loaded = [tag |-> "none"]
    /\ pool = << >>
    /\ role = << >>
    /\ alive = << >>
    /\ lastSplit = NoSplit
    /\ lastGet = NoGet
    /\ pinned = NoGet

Init == InitWith(Configs, Archives)

\* config.init_from_reader(reader, device)
InitFromReader ==
    /\ loaded.tag = "none"
    /\ \E zipKind \in ZipNotFoundKinds :
         loaded' = InitFromReaderResult(config, reader, zipKind)
    /\ IF loaded'.tag = "Ok"
       THEN /\ pool' = <<loaded'.dataset>>
            /\ role' = <<"loaded">>
            /\ alive' = <<TRUE>>
       ELSE UNCHANGED <<pool, role, alive>>
    /\ UNCHANGED <<config, reader, lastSplit, lastGet, pinned>>

SplitsDone == (Len(pool) - 1) \div 2

\* pool[d].split_for_training(ratio): the dataset is moved into the call
SplitWith(ratios, maxSplits) ==
    /\ Len(pool) >= 1
    /\ SplitsDone < maxSplits
    /\ \E d \in 1..Len(pool), ratio \in ratios :
         /\ alive[d]
         /\ LET r == SplitForTraining(pool[d], ratio)
                n == Len(pool)
            IN  IF r.tag = "Ok"
                THEN /\ pool' = pool \o <<r.split.train, r.split.test>>
                     /\ role' = role \o <<"train", "test">>
                     /\ alive' = [alive EXCEPT ![d] = FALSE] \o <<TRUE, TRUE>>
                     /\ lastSplit' = [tag |-> "Ok", parent |-> d, ratio |-> ratio,
                                      train |-> n + 1, test |-> n + 2]
                ELSE /\ alive' = [alive EXCEPT ![d] = FALSE]
                     /\ lastSplit' = [tag |-> "Panic", parent |-> d,
                                      ratio |-> ratio, train |-> 0, test |-> 0]
                     /\ UNCHANGED <<pool, role>>
    /\ UNCHANGED <<config, reader, loaded, lastGet, pinned>>

Split == SplitWith(Ratios, MaxSplits)

\* pool[d].get(index); lastGet.seq counts the calls
GetWith(maxGets) ==
    /\ lastGet.seq < maxGets
    /\ \E d \in 1..Len(pool), index \in 0..MaxImages, p \in NoisePatterns :
         /\ alive[d]
         /\ LET r == GetResult(pool[d], index, p)
            IN  lastGet' = [tag |-> r.tag, seq |-> lastGet.seq + 1, ds |-> d,
                            index |-> index, item |-> r.item]
    /\ UNCHANGED <<config, reader, loaded, pool, role, alive, lastSplit, pinned>>

\* the caller keeps the item it was last given, to compare with later ones
Pin ==
    /\ lastGet.tag = "Some"
    /\ pinned # lastGet
    /\ pinned' = lastGet
    /\ UNCHANGED <<config, reader, loaded, pool, role, alive, lastSplit, lastGet>>

\* Loading alone, over every configuration and archive
SpecLoad == Init /\ [][InitFromReader]_vars

\* Loading and splitting: one pixel per image, every image count and ratio
SplitConfigs ==
    { c \in Configs : c.points_per_ray = 1 /\ c.distance_range.start = 2 * Unit }

SplitArchives ==
    { Archive(AllNames, <<Unit>>, n, 1, 1, Channels, n) : n \in 0..MaxImages }

InitSplit == InitWith(SplitConfigs, SplitArchives)

NextSplit == InitFromReader \/ Split

SpecSplit == InitSplit /\ [][NextSplit]_vars

\* Loading, one split and reads: every configuration and image size
GetArchives ==
    { Archive(AllNames, <<3 * (Unit \div 2)>>, n, hw[1], hw[2], Channels, n) :
        n \in 1..2, hw \in ImageSizes }

GetRatios == {0, Unit \div 2}

SplitOnce == SplitWith(GetRatios, 1)

InitGet == InitWith(Configs, GetArchives)

GetOnce == GetWith(1)

NextGet == InitFromReader \/ SplitOnce \/ GetOnce

SpecGet == InitGet /\ [][NextGet]_vars

\* Loading, splits, reads and kept items, to compare two reads
PinConfigs ==
    { c \in Configs : c.points_per_ray \in {1, 2} /\ c.distance_range.start = 2 * Unit }

PinArchives == { Archive(AllNames, <<Unit>>, 2, 1, 2, Channels, 2) }

InitPin == InitWith(PinConfigs, PinArchives)

SplitTwice == SplitWith(GetRatios, 2)

Get == GetWith(MaxGets)

NextPin == InitFromReader \/ SplitTwice \/ Get \/ Pin

SpecPin == InitPin /\ [][NextPin]_vars

-----------------------------------------------------------------------------
(* Properties *)

\* the record a read was served from
StoredOf(g) == pool[g.ds].inners[g.index + 1]

FlagFollowsPart ==
    \A d \in 1..Len(pool) :
        /\ role[d] = "train" => pool[d].has_noisy_distance
        /\ role[d] = "test" => ~pool[d].has_noisy_distance

\* a train part was split again and its test part holds records
TrainPartResplit ==
    /\ lastSplit.tag = "Ok"
    /\ role[lastSplit.parent] = "train"
    /\ pool[lastSplit.parent].has_noisy_distance
    /\ Len(pool[lastSplit.test].inners) >= 1
    /\ Len(pool[lastSplit.train].inners) >= 1

RecordShapes(originsShape) ==
    loaded.tag = "Ok" =>
        LET h  == reader.images.shape[2]
            w  == reader.images.shape[3]
            ss == config.points_per_ray
        IN  \A i \in 1..Len(loaded.dataset.inners) :
              LET inner == loaded.dataset.inners[i]
              IN  /\ inner.directions.shape = <<h, w, ss, 3>>
                  /\ inner.distances.shape = <<h, w, ss, 1>>
                  /\ inner.image.shape = <<h, w, 3>>
                  /\ inner.origins.shape = originsShape
                  /\ Len(inner.directions.value) = h * w * ss * 3
                  /\ Len(inner.distances.value) = h * w * ss
                  /\ Len(inner.image.value) = h * w * 3
                  /\ Len(inner.origins.value) = Prod(originsShape)

\* C4 as stated: every record stores directions [H,W,S,3], distances
\* [H,W,S,1], image [H,W,3] and origins [H,W,S,3].
OriginsShareSampleAxis ==
    RecordShapes(<<reader.images.shape[2], reader.images.shape[3],
                   config.points_per_ray, 3>>)

\* C4 as amended: every record stores directions [H,W,S,3], distances
\* [H,W,S,1], image [H,W,3] and origins [H,W,1,3]: origins keep a sample axis
\* of size 1, which get broadcasts.
OriginsKeepUnitSampleAxis ==
    RecordShapes(<<reader.images.shape[2], reader.images.shape[3], 1, 3>>)

\* records of 2-row images built for more than one sample per ray
RecordsWithSeveralSamples ==
    /\ loaded.tag = "Ok"
    /\ Len(loaded.dataset.inners) >= 2
    /\ config.points_per_ray >= 2
    /\ reader.images.shape[2] = 2

\* the three arrays were decoded: the names exist and focal holds a value
Decoded == reader.names = AllNames /\ reader.focal # << >>

\* C5: with the arrays decoded, an image count different from the pose count
\* or a channel count different from 3 makes init_from_reader fail with
\* InvalidData and no dataset; otherwise it returns a dataset of exactly
\* image_count records.
BuildIsAllOrNothing ==
    (loaded.tag # "none" /\ Decoded) =>
        IF \/ reader.images.shape[1] # reader.poses.shape[1]
           \/ reader.images.shape[4] # 3
        THEN loaded = Err("InvalidData") /\ pool = << >>
        ELSE /\ loaded.tag = "Ok"
             /\ Len(loaded.dataset.inners) = reader.images.shape[1]
             /\ pool = <<loaded.dataset>>

\* a build refused for its channel count alone
RefusedForChannels ==
    /\ loaded.tag = "Err"
    /\ Decoded
    /\ reader.images.shape[1] = reader.poses.shape[1]
    /\ reader.images.shape[4] = 4
    /\ pool = << >>

\* the build stops at an array that is missing from the archive
StopsAtMissingArray ==
    \/ "focal" \notin reader.names
    \/ reader.focal # << >> /\ reader.names # AllNames

\* C6 as stated: every failure of the build, a missing named array included,
\* is reported as InvalidData.
EveryFailureIsInvalidData ==
    loaded.tag = "Err" => loaded.kind = "InvalidData"

\* C6 as amended: an empty focal array, an image/pose count mismatch and a
\* wrong channel count are reported as InvalidData; a missing named array is
\* reported with the kind the archive reader's not-found error converts to,
\* which is not InvalidData.
OnlyParseFailuresAreInvalidData ==
    loaded.tag = "Err" =>
        IF StopsAtMissingArray
        THEN loaded.kind \in ZipNotFoundKinds /\ loaded.kind # "InvalidData"
        ELSE loaded.kind = "InvalidData"

\* a build that failed because "poses" is missing
FailedForMissingPoses ==
    /\ loaded.tag = "Err"
    /\ reader.names = {"focal", "images"}
    /\ reader.focal # << >>

\* on a dataset with jitter disabled the item returned holds the stored
\* directions, distances and image, and equals the item kept from an earlier
\* read of the same index
ReadsRepeat ==
    /\ (lastGet.tag = "Some" /\ ~pool[lastGet.ds].has_noisy_distance) =>
          /\ lastGet.item.distances = StoredOf(lastGet).distances
          /\ lastGet.item.directions = StoredOf(lastGet).directions
          /\ lastGet.item.image = StoredOf(lastGet).image
    /\ ( /\ lastGet.tag = "Some"
         /\ pinned.tag = "Some"
         /\ pinned.ds = lastGet.ds
         /\ pinned.index = lastGet.index
         /\ ~pool[lastGet.ds].has_noisy_distance ) =>
          pinned.item = lastGet.item

\* C7: on a dataset with jitter disabled, two get(index) calls, with other
\* gets and splits in between, return identical directions, distances, image
\* and positions; the returned distances are the stored ones; get never
\* changes the stored records.
RepeatableReads ==
    [] ReadsRepeat /\ [][lastGet' # lastGet => pool' = pool /\ alive' = alive]_vars

\* a test part read twice at the same index, with another read in between,
\* after two splits; the record has a positive step
TestPartReadTwice ==
    /\ lastGet.tag = "Some"
    /\ pinned.tag = "Some"
    /\ pinned.seq + 2 = lastGet.seq
    /\ pinned.ds = lastGet.ds
    /\ pinned.index = lastGet.index
    /\ role[lastGet.ds] = "test"
    /\ Len(pool) = 5
    /\ config.points_per_ray = 2

\* the step of a record at pixel (h, w): the second distance along the
\* sample axis minus the first, 0 with fewer than 2 samples
SampleStep(inner, h, w) ==
    IF inner.distances.shape[3] >= 2
    THEN fsub(At(inner.distances, <<h, w, 1, 0>>),
              At(inner.distances, <<h, w, 0, 0>>))
    ELSE 0

\* the returned distance at idx is the stored one plus a noise n, 0 <= n < step
NoiseWithinStep(g, idx) ==
    \E n \in 0..(SampleStep(StoredOf(g), idx[1], idx[2]) - 1) :
        /\ IsRepresentable(n)
        /\ At(g.item.distances, idx) = fadd(At(StoredOf(g).distances, idx), n)

\* C8 as stated: on a jitter-enabled dataset every returned distance is the
\* stored one plus a noise n with 0 <= n < step, for every points_per_ray,
\* 0 and 1 included, where step is 0 with fewer than 2 samples per ray.
NoiseAlwaysBelowStep ==
    (lastGet.tag = "Some" /\ pool[lastGet.ds].has_noisy_distance) =>
        /\ lastGet.item.distances.shape = StoredOf(lastGet).distances.shape
        /\ \A idx \in Indices(lastGet.item.distances.shape) :
              NoiseWithinStep(lastGet, idx)

\* C8 as amended: on a jitter-enabled dataset every returned distance is the
\* stored one plus a noise n with 0 <= n < step when step > 0, and is the
\* stored one (n = 0) when step = 0, which is the case with fewer than 2
\* samples per ray.
NoiseBelowPositiveStep ==
    (lastGet.tag = "Some" /\ pool[lastGet.ds].has_noisy_distance) =>
        /\ lastGet.item.distances.shape = StoredOf(lastGet).distances.shape
        /\ \A idx \in Indices(lastGet.item.distances.shape) :
              LET step == SampleStep(StoredOf(lastGet), idx[1], idx[2])
              IN  /\ step >= 0
                  /\ StoredOf(lastGet).distances.shape[3] < 2 => step = 0
                  /\ IF step > 0 THEN NoiseWithinStep(lastGet, idx)
                     ELSE At(lastGet.item.distances, idx)
                            = At(StoredOf(lastGet).distances, idx)

\* a jittered read of a record with several samples that moved a distance
JitteredReadMoved ==
    /\ lastGet.tag = "Some"
    /\ pool[lastGet.ds].has_noisy_distance
    /\ StoredOf(lastGet).distances.shape[3] >= 2
    /\ lastGet.item.distances # StoredOf(lastGet).distances

\* C9: in every item, positions[h,w,s,c] = origins[h,w,c] +
\* directions[h,w,s,c] * distances[h,w,s] with the distances returned in the
\* same item, and the returned directions and image are the stored ones.
PositionsFollowReturnedDistances ==
    lastGet.tag = "Some" =>
        LET inner == StoredOf(lastGet)
            item  == lastGet.item
        IN  /\ item.directions = inner.directions
            /\ item.image = inner.image
            /\ item.positions.shape = inner.directions.shape
            /\ Len(item.positions.value) = Prod(inner.directions.shape)
            /\ \A idx \in Indices(item.positions.shape) :
                  At(item.positions, idx)
                    = fadd(At(inner.origins, <<idx[1], idx[2], 0, idx[4]>>),
                           fmul(At(inner.directions, idx),
                                At(item.distances,
                                   <<idx[1], idx[2], idx[3], 0>>)))

\* positions of a jittered read whose noise moved a distance
JitteredPositions ==
    /\ lastGet.tag = "Some"
    /\ pool[lastGet.ds].has_noisy_distance
    /\ lastGet.item.distances # StoredOf(lastGet).distances
    /\ lastGet.item.positions
         # Add(StoredOf(lastGet).origins,
               Mul(StoredOf(lastGet).directions, StoredOf(lastGet).distances))

====
